---- MODULE Spec2Model ----
(***************************************************************************)
(* Model of build-utils/lint.py: the pylint-lark grammar lints.            *)
(*                                                                         *)
(* The registry of grammar checkers, the check_grammar generator that the  *)
(* host calls for every astroid Call node, and the two registered checker  *)
(* functions.  A grammar text is a sequence of one-character strings.      *)
(* check_grammar is a Python generator: calling it only creates the frame, *)
(* every next() of the consumer runs the body up to the next yield, return *)
(* or raise.                                                               *)
(***************************************************************************)
EXTENDS Integers, Sequences, FiniteSets, TLC

VARIABLES
    functions,   \* registry.functions, the list the registry appends to
    registered,  \* history: the functions passed to registry.checker, in call order
    linter,      \* "unregistered" until register(linter) has run
    frame,       \* the frame of the current check_grammar generator
    out,         \* the messages the current generator has yielded so far
    emitted,     \* the same messages as the checker functions emitted them (msg before attr.evolve)
    invoked,     \* the checker functions called by the current generator, in call order
    prev         \* history: one earlier, fully consumed run on a string literal
                 \* (kept under SpecHistory only)

vars == <<functions, registered, linter, frame, out, emitted, invoked, prev>>

----------------------------------------------------------------------------
(* Bounds of the model *)

MaxRegs == 2   \* registry.checker is called at most this many times
MaxLen  == 3   \* generated grammar texts have at most this many characters
MaxLine == 3   \* literal nodes lie on lines 1..MaxLine of the host file

----------------------------------------------------------------------------
(* Characters and grammar texts *)

NL == "\n"
CR == "\r"

Letters ==
    {"a","b","c","d","e","f","g","h","i","j","k","l","m",
     "n","o","p","q","r","s","t","u","v","w","x","y","z",
     "A","B","C","D","E","F","G","H","I","J","K","L","M",
     "N","O","P","Q","R","S","T","U","V","W","X","Y","Z"}

Digits == {"0","1","2","3","4","5","6","7","8","9"}

\* \w of the re module
WordChars == Letters \cup Digits \cup {"_"}

\* the line boundaries of str.splitlines that the texts of the model use
LineBreaks == {NL, CR}

\* "foo: \"bar\"\n"
FooBar == <<"f","o","o",":"," ","\"","b","a","r","\"",NL>>
\* "x: y\n"
XY == <<"x",":"," ","y",NL>>
\* "baz\rquux\r\nx", line boundaries other than a bare "\n"
Mixed == <<"b","a","z",CR,"q","u","u","x",CR,NL,"x">>

GenAlphabet == {"x", NL}

SeqsUpTo(S, n) == UNION {[1..k -> S] : k \in 0..n}

Texts == SeqsUpTo(GenAlphabet, MaxLen) \cup {FooBar, XY, Mixed}

----------------------------------------------------------------------------
(* str methods *)

\* grammar.count("\n")
count(s, c) == Cardinality({i \in 1..Len(s) : s[i] = c})

RECURSIVE SplitFrom(_, _, _)
SplitFrom(s, i, cur) ==
    IF i > Len(s) THEN (IF cur = <<>> THEN <<>> ELSE <<cur>>)
    ELSE IF s[i] = CR /\ i < Len(s) /\ s[i+1] = NL
         THEN <<cur>> \o SplitFrom(s, i + 2, <<>>)
    ELSE IF s[i] \in LineBreaks
         THEN <<cur>> \o SplitFrom(s, i + 1, <<>>)
    ELSE SplitFrom(s, i + 1, Append(cur, s[i]))

\* grammar.splitlines(): the lines without their line breaks; a final line
\* break opens no further line
splitlines(s) == SplitFrom(s, 1, <<>>)

----------------------------------------------------------------------------
(* Messages *)

BAD_NAME == "bad-name"

\* pyglint.message(problem=..., node=node, line=..., col_offset=..., identifier=...)
message(problem, line, col_offset, identifier) ==
    [problem |-> problem, line |-> line, col_offset |-> col_offset,
     identifier |-> identifier]

----------------------------------------------------------------------------
(* The checker functions *)

\* the alternatives of the pattern "(foo|bar|baz|quux)", in pattern order
MetaWords ==
    << [name |-> "foo",  chars |-> <<"f","o","o">>],
       [name |-> "bar",  chars |-> <<"b","a","r">>],
       [name |-> "baz",  chars |-> <<"b","a","z">>],
       [name |-> "quux", chars |-> <<"q","u","u","x">>] >>

MatchesAt(line, i, w) ==
    /\ i + Len(w) - 1 <= Len(line)
    /\ \A k \in 1..Len(w) : line[i + k - 1] = w[k]

\* the first alternative matching at position i, 0 when none does
AltAt(line, i) ==
    LET hits == {a \in 1..Len(MetaWords) : MatchesAt(line, i, MetaWords[a].chars)}
    IN IF hits = {} THEN 0 ELSE CHOOSE a \in hits : \A b \in hits : a <= b

\* re.finditer("(foo|bar|baz|quux)", line): leftmost, non-overlapping
RECURSIVE MetaMatches(_, _, _)
MetaMatches(line, i, lineno) ==
    IF i > Len(line) THEN <<>>
    ELSE LET a == AltAt(line, i) IN
         IF a = 0 THEN MetaMatches(line, i + 1, lineno)
         ELSE <<message(BAD_NAME, lineno, i - 1, MetaWords[a].name)>>
              \o MetaMatches(line, i + Len(MetaWords[a].chars), lineno)

\* \b at the gap before position i (1..Len+1) of line
Boundary(line, i) ==
    LET before == i > 1 /\ line[i - 1] \in WordChars
        after  == i <= Len(line) /\ line[i] \in WordChars
    IN before # after

\* re.finditer(r"\b([A-Za-z])\b", line)
RECURSIVE ShortMatches(_, _, _)
ShortMatches(line, i, lineno) ==
    IF i > Len(line) THEN <<>>
    ELSE IF line[i] \in Letters /\ Boundary(line, i) /\ Boundary(line, i + 1)
         THEN <<message(BAD_NAME, lineno, i - 1, line[i])>>
              \o ShortMatches(line, i + 1, lineno)
    ELSE ShortMatches(line, i + 1, lineno)

RECURSIVE MetaLines(_, _)
MetaLines(lines, k) ==
    IF k > Len(lines) THEN <<>>
    ELSE MetaMatches(lines[k], 1, k - 1) \o MetaLines(lines, k + 1)

RECURSIVE ShortLines(_, _)
ShortLines(lines, k) ==
    IF k > Len(lines) THEN <<>>
    ELSE ShortMatches(lines[k], 1, k - 1) \o ShortLines(lines, k + 1)

\* the messages metasyntactic_names(grammar, node) generates, in order
metasyntactic_names(grammar) == MetaLines(splitlines(grammar), 1)

\* the messages short_names(grammar, node) generates, in order
short_names(grammar) == ShortLines(splitlines(grammar), 1)

Checkers == {"metasyntactic_names", "short_names"}

\* function(grammar, node) for a str grammar
CheckerOutput(function, grammar) ==
    IF function = "metasyntactic_names" THEN metasyntactic_names(grammar)
    ELSE short_names(grammar)

----------------------------------------------------------------------------
(* astroid nodes, as far as check_grammar reads them *)

NoExpr == [class |-> "none", name |-> ""]

\* Name node: has .name
Name(n) == [class |-> "Name", name |-> n, expr |-> NoExpr, attrname |-> ""]

\* Attribute node e.a: has .expr and .attrname, and no .name
Attribute(e, a) ==
    [class |-> "Attribute", name |-> "", expr |-> [class |-> "Name", name |-> e],
     attrname |-> a]

\* any other callee expression, here a subscript f[0](...): no .name
Subscript == [class |-> "Subscript", name |-> "", expr |-> NoExpr, attrname |-> ""]

\* hasattr(func, "name")
HasName(func) == func.class = "Name"

\* Const node holding a str
StrConst(text, lineno) ==
    [class |-> "Const", pytype |-> "str", value |-> text, lineno |-> lineno]
\* Const node holding an int
IntConst == [class |-> "Const", pytype |-> "int", value |-> <<>>, lineno |-> 1]
\* astroid.Uninferable: every attribute read on it gives Uninferable again
Uninferable == [class |-> "Uninferable", pytype |-> "none", value |-> <<>>, lineno |-> 1]
\* an inferred node that is no Const, here a List: no .value
ListNode == [class |-> "List", pytype |-> "none", value |-> <<>>, lineno |-> 1]
NoNode == [class |-> "none", pytype |-> "none", value |-> <<>>, lineno |-> 0]

StrConsts == {StrConst(t, l) : t \in Texts, l \in 1..MaxLine}
NonStr == {IntConst, Uninferable, ListNode}

\* what first_argument.infer() generates: its candidates in order, or InferenceError
Inferences ==
    {<<>>} \cup {<<c>> : c \in StrConsts \cup NonStr}
    \cup {<<IntConst, StrConst(XY, 1)>>, <<StrConst(XY, 1), IntConst>>}

Argument(fails, candidates) == [fails |-> fails, candidates |-> candidates]

ArgLists ==
    {<<>>, <<Argument(TRUE, <<>>)>>} \cup {<<Argument(FALSE, c)>> : c \in Inferences}

\* the argument lists tried with the callees other than the bare name Lark
FewArgLists ==
    {<<>>, <<Argument(TRUE, <<>>)>>, <<Argument(FALSE, <<IntConst>>)>>,
     <<Argument(FALSE, <<StrConst(FooBar, 1)>>)>>,
     <<Argument(FALSE, <<StrConst(XY, 2)>>)>>}

OtherFuncs ==
    {Name("open"), Subscript}
    \cup {Attribute(e, a) : e \in {"lark", "os"}, a \in {"Lark", "open"}}

CallNode(func, args) == [class |-> "Call", func |-> func, args |-> args]

\* the Call nodes the host hands to check_grammar
CallNodes ==
    {CallNode(Name("Lark"), a) : a \in ArgLists}
    \cup {CallNode(f, a) : f \in OtherFuncs, a \in FewArgLists}

\* the grammar texts of the literals whose runs the history keeps
HistoryTexts == {<<>>, FooBar, XY, Mixed}

\* the Call nodes of the runs with a history: every callee and every outcome
\* of the inference, the string literals taken from HistoryTexts
HistoryNodes ==
    {n \in CallNodes :
        (n.args # <<>> /\ n.args[1].candidates # <<>>
         /\ Head(n.args[1].candidates).pytype = "str")
        => Head(n.args[1].candidates).value \in HistoryTexts}

NoCall == CallNode(NoExpr @@ [attrname |-> "", expr |-> NoExpr], <<>>)

----------------------------------------------------------------------------
(* GrammarCheckerRegistry *)

\* a registry that puts the newest function first
checkerPrepend(fs, function) == <<function>> \o fs

\* registry.checker(function): the functions list afterwards
checker(fs, function) == Append(fs, function)

----------------------------------------------------------------------------
(* check_grammar *)

NoGrammar == [type |-> "none", text |-> <<>>]

\* node.value
value(node) ==
    IF node.class = "Uninferable" THEN [type |-> "Uninferable", text |-> <<>>]
    ELSE [type |-> node.pytype, text |-> node.value]

HasValue(node) == node.class \in {"Const", "Uninferable"}

\* attr.evolve(msg, line=line)
evolve(msg, line) == [msg EXCEPT !.line = line]

\* remapping that subtracts the number of lines of the text
RemapLineByLineCount(msg, node, grammar) ==
    evolve(msg, msg.line + node.lineno - Len(splitlines(grammar)))

\* remapping for a host tree that reports the first line of a literal
RemapLineFromFirst(msg, node, grammar) ==
    evolve(msg, msg.line + node.lineno)

\* remapping that also moves the column
RemapLineAndColumn(msg, node, grammar) ==
    [msg EXCEPT !.line = msg.line + node.lineno - count(grammar, NL),
                !.col_offset = @ + node.lineno]

\* msg = attr.evolve(msg, line=msg.line + node.lineno - grammar.count("\n"))
RemapLine(msg, node, grammar) ==
    evolve(msg, msg.line + node.lineno - count(grammar, NL))

\* a loop that consumes the registry while it iterates
ForNextPop(fs, i) == [fs |-> Tail(fs), i |-> i, item |-> Head(fs)]

\* one step of "for function in registry.functions": the list iterator reads
\* the element at its index and moves on; the list stays as it is
ForNext(fs, i) == [fs |-> fs, i |-> i + 1, item |-> fs[i + 1]]

\* calling every remaining checker function up front
CallCheckerEager(m, function) ==
    [m EXCEPT !.cur = function, !.mi = 0,
              !.invoked = @ \o SubSeq(m.fs, m.fi, Len(m.fs))]

\* function(grammar, node): the call of one checker function
CallChecker(m, function) ==
    [m EXCEPT !.cur = function, !.mi = 0, !.invoked = Append(@, function)]

Raise(m, error) == [m EXCEPT !.status = "raised", !.error = error, !.cur = "none"]
Return(m) == [m EXCEPT !.status = "returned", !.cur = "none"]

\* lines 31-47: the shape tests, the inference and node.value.
\* pep479: a StopIteration leaving a generator body becomes RuntimeError
\* (Python 3.7 on); before, it ends the generator
Prologue(m, pep479) ==
    LET node == m.call IN
    IF node.class = "Attribute" /\ node.func.expr.name # "lark" THEN Return(m)
    ELSE IF node.class = "Attribute" /\ node.func.attrname # "Lark" THEN Return(m)
    ELSE IF node.class = "Call" /\ ~HasName(node.func) THEN Raise(m, "AttributeError")
    ELSE IF node.class = "Call" /\ node.func.name # "Lark" THEN Return(m)
    ELSE IF node.args = <<>> THEN Raise(m, "IndexError")
    ELSE LET first_argument == node.args[1] IN
         IF first_argument.fails THEN Raise(m, "InferenceError")
         ELSE IF first_argument.candidates = <<>>
              THEN (IF pep479 THEN Raise(m, "RuntimeError") ELSE Return(m))
         ELSE LET inferred == Head(first_argument.candidates) IN
              IF ~HasValue(inferred) THEN Raise(m, "AttributeError")
              ELSE [m EXCEPT !.status = "running", !.node = inferred,
                             !.grammar = value(inferred)]

\* lines 49-52: run the two loops up to the next yield, the return or a raise
RECURSIVE Loop(_)
Loop(m) ==
    IF m.cur # "none" /\ m.mi < Len(CheckerOutput(m.cur, m.grammar.text))
    THEN LET msg == CheckerOutput(m.cur, m.grammar.text)[m.mi + 1] IN
         [m EXCEPT !.status = "suspended", !.mi = @ + 1,
                   !.raw = <<[msg |-> msg, position |-> m.fi]>>,
                   !.yielded = <<RemapLine(msg, m.node, m.grammar.text)>>]
    ELSE IF m.fi >= Len(m.fs) THEN Return(m)
    ELSE LET it == ForNext(m.fs, m.fi)
             c  == CallChecker([m EXCEPT !.fs = it.fs, !.fi = it.i], it.item)
         IN IF m.grammar.type = "str" THEN Loop(c)
            ELSE IF m.grammar.type = "int" THEN Raise(c, "AttributeError")
            ELSE Raise(c, "TypeError")

\* next(generator)
RunToYield(m, pep479) ==
    IF m.status = "created"
    THEN LET p == Prologue(m, pep479) IN
         IF p.status = "running" THEN Loop(p) ELSE p
    ELSE Loop(m)

NewFrame(call) ==
    [status |-> "created", call |-> call, node |-> NoNode, grammar |-> NoGrammar,
     fi |-> 0, cur |-> "none", mi |-> 0, error |-> "none"]

NoPrev == [valid |-> FALSE, grammar |-> <<>>, lineno |-> 0, out |-> <<>>]

----------------------------------------------------------------------------
(* The state machine *)

Init ==
    /\ functions = <<>>
    /\ registered = <<>>
    /\ linter = "unregistered"
    /\ frame = [NewFrame(NoCall) EXCEPT !.status = "none"]
    /\ out = <<>>
    /\ emitted = <<>>
    /\ invoked = <<>>
    /\ prev = NoPrev

\* @registry.checker at module load
Register(function) ==
    /\ linter = "unregistered"
    /\ Len(registered) < MaxRegs
    /\ functions' = checker(functions, function)
    /\ registered' = Append(registered, function)
    /\ UNCHANGED <<linter, frame, out, emitted, invoked, prev>>

\* register(linter): from now on the host dispatches Call nodes
register ==
    /\ linter = "unregistered"
    /\ linter' = "registered"
    /\ UNCHANGED <<functions, registered, frame, out, emitted, invoked, prev>>

\* the host calls check_grammar(checker, node): a new generator
check_grammar(node) ==
    /\ linter = "registered"
    /\ frame.status \in {"none", "returned", "raised", "closed"}
    /\ frame' = NewFrame(node)
    /\ out' = <<>>
    /\ emitted' = <<>>
    /\ invoked' = <<>>
    /\ UNCHANGED <<functions, registered, linter, prev>>

\* the consumer pulls the next message
Resume(pep479) ==
    /\ frame.status \in {"created", "suspended"}
    /\ LET m0 == frame @@ [fs |-> functions, invoked |-> invoked,
                           raw |-> <<>>, yielded |-> <<>>]
           m  == RunToYield([m0 EXCEPT !.raw = <<>>, !.yielded = <<>>], pep479)
       IN /\ frame' = [f \in DOMAIN frame |-> m[f]]
          /\ functions' = m.fs
          /\ invoked' = m.invoked
          /\ out' = out \o m.yielded
          /\ emitted' = emitted \o m.raw
    /\ UNCHANGED <<registered, linter, prev>>

\* the consumer stops pulling
Close ==
    /\ frame.status \in {"created", "suspended"}
    /\ frame' = [frame EXCEPT !.status = "closed"]
    /\ UNCHANGED <<functions, registered, linter, out, emitted, invoked, prev>>

\* history: keep the literal and the findings of a fully consumed run
Remember ==
    /\ frame.status = "returned"
    /\ frame.grammar.type = "str"
    /\ prev' = [valid |-> TRUE, grammar |-> frame.grammar.text,
                lineno |-> frame.node.lineno, out |-> out]
    /\ UNCHANGED <<functions, registered, linter, frame, out, emitted, invoked>>

Next ==
    \/ \E function \in Checkers : Register(function)
    \/ register
    \/ \E node \in CallNodes : check_grammar(node)
    \/ \E pep479 \in BOOLEAN : Resume(pep479)
    \/ Close

Spec == Init /\ [][Next]_vars

\* the same program, observed with the history of one earlier run
NextHistory ==
    \/ \E function \in Checkers : Register(function)
    \/ register
    \/ \E node \in HistoryNodes : check_grammar(node)
    \/ \E pep479 \in BOOLEAN : Resume(pep479)
    \/ Close
    \/ Remember

SpecHistory == Init /\ [][NextHistory]_vars

----------------------------------------------------------------------------
(* Properties *)

\* shape 1: a direct call to a function named Lark
Shape1(call) == call.func.class = "Name" /\ call.func.name = "Lark"

\* shape 2: a call to the attribute Lark of a base expression named lark
Shape2(call) ==
    /\ call.func.class = "Attribute"
    /\ call.func.attrname = "Lark"
    /\ call.func.expr.class = "Name"
    /\ call.func.expr.name = "lark"

\* the first argument is inferred to a string constant
Resolvable(call) ==
    /\ call.args # <<>>
    /\ ~call.args[1].fails
    /\ call.args[1].candidates # <<>>
    /\ Head(call.args[1].candidates).class = "Const"
    /\ Head(call.args[1].candidates).pytype = "str"

\* the literal node of a resolvable call
Literal(call) == Head(call.args[1].candidates)

Started == frame.status # "none"
Finished == frame.status \in {"returned", "raised"}
Scanning == Started /\ Shape1(frame.call) /\ Resolvable(frame.call)

IsPrefix(s, t) == Len(s) <= Len(t) /\ s = SubSeq(t, 1, Len(s))

\* the findings of the checker at each position, remapped as the code's
\* formula says, one checker after the other
RECURSIVE Concatenation(_, _, _)
Concatenation(fs, k, lit) ==
    IF k > Len(fs) THEN <<>>
    ELSE LET found == CheckerOutput(fs[k], lit.value) IN
         [i \in 1..Len(found) |->
             [found[i] EXCEPT !.line = @ + lit.lineno - count(lit.value, NL)]]
         \o Concatenation(fs, k + 1, lit)

\* C1 (as amended): every yielded finding carries line N + L - K, where N is
\* the line of the literal node, L the grammar-relative line the checker
\* emitted and K the number of "\n" characters of the grammar text.
C1_RemapByNewlineCount ==
    Scanning =>
        /\ Len(out) = Len(emitted)
        /\ \A i \in 1..Len(out) :
              out[i].line = Literal(frame.call).lineno + emitted[i].msg.line
                            - count(Literal(frame.call).value, NL)

\* C1 witness: a finding on a later line of a multi-line text that does not
\* end with a newline has been yielded.
C1_Witness ==
    /\ Scanning
    /\ LET g == Literal(frame.call).value IN
       /\ g # <<>> /\ g[Len(g)] # NL /\ count(g, NL) >= 1
       /\ \E i \in 1..Len(out) : emitted[i].msg.line >= 1

\* C1 (as claimed): every yielded finding carries line N + L - C, where C is
\* the number of lines of the grammar text.
C1_RemapByLineCount ==
    Scanning =>
        \A i \in 1..Len(out) :
            out[i].line = Literal(frame.call).lineno + emitted[i].msg.line
                          - Len(splitlines(Literal(frame.call).value))

\* C2: a call of neither recognized shape yields no findings and ends
\* normally, without raising.
C2_IrrelevantNodeSkipped ==
    (Started /\ ~Shape1(frame.call) /\ ~Shape2(frame.call)) =>
        /\ out = <<>>
        /\ frame.status # "raised"

\* C3: a call of a recognized shape whose first argument is not inferred to a
\* string constant yields no findings, never raises and invokes no checker.
\* Stated for the bare call Lark(...), the shape the shape tests let through.
C3_UnresolvableSkipped ==
    (/\ Started
     /\ Shape1(frame.call)
     /\ frame.call.args # <<>>
     /\ ~Resolvable(frame.call)) =>
        /\ out = <<>>
        /\ invoked = <<>>
        /\ frame.status # "raised"

\* C4: a finished run on lark.Lark(g) with a string literal g has returned
\* the findings the bare call Lark(g) yields for the same literal.
C4_AttributeShapeRecognized ==
    (Finished /\ Shape2(frame.call) /\ Resolvable(frame.call)) =>
        /\ frame.status = "returned"
        /\ out = Concatenation(registered, 1, Literal(frame.call))

\* C5: no yielded finding lies above the first line of the file.
C5_LinesInsideFile ==
    Scanning => \A i \in 1..Len(out) : out[i].line >= 1

\* C6: when the consumer has stopped after a finding of the i-th registered
\* checker, the checkers invoked are exactly the first i registered ones;
\* none registered after position i has been invoked.
C6_Laziness ==
    (frame.status \in {"suspended", "closed"} /\ emitted # <<>>) =>
        LET i == emitted[Len(emitted)].position IN
        /\ Len(invoked) = i
        /\ invoked = SubSeq(registered, 1, i)

\* C6 witness: the consumer stopped after a finding of the first checker
\* while a second checker, which has findings of its own, is registered.
C6_Witness ==
    /\ frame.status = "closed"
    /\ emitted # <<>>
    /\ emitted[Len(emitted)].position = 1
    /\ Len(registered) = 2
    /\ CheckerOutput(registered[2], frame.grammar.text) # <<>>

\* C7: a fully consumed run on a resolvable grammar has invoked every
\* registered function once, in registration order, and has yielded the
\* concatenation of their finding sequences, earlier checkers first.
C7_RegistrationOrder ==
    (Scanning /\ Finished) =>
        /\ frame.status = "returned"
        /\ invoked = registered
        /\ out = Concatenation(registered, 1, Literal(frame.call))
        /\ \A i, j \in 1..Len(emitted) :
              i < j => emitted[i].position <= emitted[j].position

\* C7 witness: a run over two different checkers, both with findings, has
\* been consumed to its end.
C7_Witness ==
    /\ Scanning
    /\ frame.status = "returned"
    /\ Len(registered) = 2
    /\ registered[1] # registered[2]
    /\ \E i, j \in 1..Len(emitted) :
          emitted[i].position = 1 /\ emitted[j].position = 2

\* C8: a yielded finding differs from the emitted one in its line only:
\* column offset, problem and identifier are the emitted ones.
C8_OnlyLineChanges ==
    /\ Len(out) = Len(emitted)
    /\ \A i \in 1..Len(out) :
          /\ out[i].col_offset = emitted[i].msg.col_offset
          /\ out[i].problem = emitted[i].msg.problem
          /\ out[i].identifier = emitted[i].msg.identifier
          /\ DOMAIN out[i] = DOMAIN emitted[i].msg

\* C8 witness: a finding with a column offset above 0 was yielded with
\* another line than the emitted one.
C8_Witness ==
    \E i \in 1..Len(out) :
        /\ out[i].line # emitted[i].msg.line
        /\ emitted[i].msg.col_offset > 0

FooBarRun ==
    /\ Scanning
    /\ frame.status = "returned"
    /\ Literal(frame.call) = StrConst(FooBar, 3)
    /\ registered = <<"metasyntactic_names">>

FooBarEmitted ==
    emitted = << [msg |-> message(BAD_NAME, 0, 0, "foo"), position |-> 1],
                 [msg |-> message(BAD_NAME, 0, 6, "bar"), position |-> 1] >>

\* C9 (as amended): "foo: \"bar\"\n" run through the metasyntactic-name check
\* yields exactly two findings, foo at column 0 and bar at column 6 of
\* relative line 0; remapped with N=3, C=1 both report absolute line 2.
C9_FooBarAtLine2 ==
    FooBarRun =>
        /\ FooBarEmitted
        /\ Len(out) = 2
        /\ \A i \in 1..Len(out) : out[i].line = 2

\* C9 witness: the run on that literal at line 3 has been consumed.
C9_Witness == FooBarRun /\ Len(out) = 2

\* C9 (as claimed): the same findings, both reporting absolute line 3.
C9_FooBarAtLine3 ==
    FooBarRun =>
        /\ FooBarEmitted
        /\ Len(out) = 2
        /\ \A i \in 1..Len(out) : out[i].line = 3

SameAsPrev ==
    /\ prev.valid
    /\ Scanning
    /\ Literal(frame.call).value = prev.grammar
    /\ Literal(frame.call).lineno = prev.lineno

\* C10: once registration is over, scanning leaves the registry's list as
\* registered, and a run on a grammar text and literal line scanned before
\* yields the findings of the earlier run, in the same order.
C10_StatelessDeterministic ==
    /\ linter = "registered" => functions = registered
    /\ SameAsPrev =>
          /\ frame.status # "raised"
          /\ IsPrefix(out, prev.out)
          /\ frame.status = "returned" => out = prev.out

\* C10 witness: a later run on the literal of an earlier, remembered run has
\* been consumed, with findings.
C10_Witness ==
    /\ SameAsPrev
    /\ frame.status = "returned"
    /\ out # <<>>
    /\ Len(registered) = 2

====
